---- MODULE Spec2Model ----
(***************************************************************************)
(* A model of the Synology storage client (src/client.py): the session      *)
(* lifecycle (login, logout, re-authentication on session expiry), the      *)
(* per-folder model catalog with its cache, and the streaming download      *)
(* with its local file cache.                                               *)
(*                                                                          *)
(* Threads call the public operations of one SynologyClient concurrently.   *)
(* Each action is one step of one thread between two points where another   *)
(* thread can observe or change shared state (the client's fields, the      *)
(* local file system, the config file).  The remote service is an           *)
(* adversary: every request is answered by any of its possible responses.   *)
(*                                                                          *)
(* Python strings are sequences of one-character strings, so that rstrip,   *)
(* startswith, endswith, lower and sorted are computed as Python computes   *)
(* them.  None is the value None below; the empty string is << >>.          *)
(***************************************************************************)
EXTENDS Integers, Sequences, FiniteSets, TLC

\* ------------------------------------------------------------------------
\* Bounds of the model
\* ------------------------------------------------------------------------

\* Public operations started in one run, over all threads.
MaxOps == 2

\* The same, in the runs of the catalog alone, of the downloads alone and of
\* the session and folder operations alone.
MaxCatalogOps == 4

MaxDownloadOps == 3

MaxVersionOps == 3

MaxFolderOps == 3

MaxListingOps == 2

MaxFactoryOps == 3

MaxClearOps == 3

MaxTraversalOps == 2

MaxLockOps == 2

\* Chunks in the streamed body of a downloaded file.
NChunks == 2

Threads == {1, 2}

\* ------------------------------------------------------------------------
\* Strings
\* ------------------------------------------------------------------------

None == <<"None">>

Truthy(x) == x # None /\ x # << >>

OrEmpty(x) == IF Truthy(x) THEN x ELSE << >>

UpperChars == <<"A","B","C","D","E","F","G","H","I","J","K","L","M",
                "N","O","P","Q","R","S","T","U","V","W","X","Y","Z">>

LowerChars == <<"a","b","c","d","e","f","g","h","i","j","k","l","m",
                "n","o","p","q","r","s","t","u","v","w","x","y","z">>

\* The characters in code-point order, as Python compares strings.
CodePoints == <<".", "/">> \o UpperChars \o LowerChars

Ord(c) == CHOOSE i \in 1..Len(CodePoints) : CodePoints[i] = c

LowerChar(c) ==
    IF \E i \in 1..Len(UpperChars) : UpperChars[i] = c
    THEN LowerChars[CHOOSE i \in 1..Len(UpperChars) : UpperChars[i] = c]
    ELSE c

\* str.lower()
Lower(s) == [i \in 1..Len(s) |-> LowerChar(s[i])]

\* str.startswith(p)
StartsWith(s, p) == Len(p) <= Len(s) /\ SubSeq(s, 1, Len(p)) = p

\* str.endswith(p)
EndsWith(s, p) ==
    Len(p) <= Len(s) /\ SubSeq(s, Len(s) - Len(p) + 1, Len(s)) = p

\* str.rstrip("/"): every trailing slash is removed.
RECURSIVE RStripSlash(_)
RStripSlash(s) ==
    IF s # << >> /\ s[Len(s)] = "/"
    THEN RStripSlash(SubSeq(s, 1, Len(s) - 1))
    ELSE s

\* a < b on Python strings.
RECURSIVE StrLess(_, _)
StrLess(a, b) ==
    IF b = << >> THEN FALSE
    ELSE IF a = << >> THEN TRUE
    ELSE IF a[1] # b[1] THEN Ord(a[1]) < Ord(b[1])
    ELSE StrLess(Tail(a), Tail(b))

\* One insertion of Python's stable sort: x goes after the elements not
\* greater than it.
RECURSIVE InsertSorted(_, _)
InsertSorted(x, s) ==
    IF s = << >> THEN <<x>>
    ELSE IF StrLess(x, s[1]) THEN <<x>> \o s
    ELSE <<s[1]>> \o InsertSorted(x, Tail(s))

\* sorted(list of strings)
RECURSIVE Sorted(_)
Sorted(s) ==
    IF s = << >> THEN << >>
    ELSE InsertSorted(s[Len(s)], Sorted(SubSeq(s, 1, Len(s) - 1)))

\* ------------------------------------------------------------------------
\* Names, paths and the remote tree
\* ------------------------------------------------------------------------

\* Folder keys ("loras", "vae", ...), one letter each.
Loras == <<"l">>

Vae == <<"v">>

Keys == {Loras, Vae}

\* client.py line 101: the default of _models_base_path ("/volume1/models").
models_base_path == <<"/", "m">>

\* The cache directory the client was constructed with.
cache_dir == <<"/", "z">>

Accounts == {<<"a">>, <<"b">>}

Passwords == {<<"p">>}

\* api_url as callers pass it: absent, or a URL with a trailing slash.
UrlInputs == {None, <<"n", "/">>}

\* Paths set_folder_path is called with: "" removes the override.
FolderPathInputs == {<< >>, <<"/", "c", "/">>}

\* The same, with the paths that are nothing but slashes or end in several.
EdgeFolderPathInputs ==
    FolderPathInputs \cup {<<"/">>, <<"/", "c", "/", "/">>}

\* The files download_model is asked for: (folder, filename).
DownloadInputs == {<<Loras, <<"k", ".", "p", "t">>>>}

\* Paths list_directory is called with.
DirectoryInputs == {<<"/">>, <<"/", "m">>}

Join(dir, name) == dir \o <<"/">> \o name

File(dir, name) == [name |-> name, path |-> Join(dir, name), isdir |-> FALSE]

Dir(dir, name) == [name |-> name, path |-> Join(dir, name), isdir |-> TRUE]

\* The directories of the NAS and what a "list" of each returns, in the
\* order the NAS returns it.
RemoteDirs ==
    { <<"/", "m">>, Join(models_base_path, Loras), Join(models_base_path, Vae),
      Join(Join(models_base_path, Loras), <<"d">>), <<"/", "c">> }

RemoteList(path) ==
    IF path = <<"/", "m">>
    THEN << Dir(path, Vae), Dir(path, Loras) >>
    ELSE IF path = Join(models_base_path, Loras)
    THEN << File(path, <<"k", ".", "p", "t">>), Dir(path, <<"d">>),
            File(path, <<"n", ".", "t", "x", "t">>) >>
    ELSE IF path = Join(Join(models_base_path, Loras), <<"d">>)
    THEN << File(path, <<"X", ".", "P", "T">>),
            File(path, <<"b", ".", "j", "s", "o", "n">>) >>
    ELSE IF path = <<"/", "c">>
    THEN << File(path, <<"e", ".", "b", "i", "n">>),
            \* an entry the NAS reports under another folder
            File(<<"/", "c", "c">>, <<"f", ".", "p", "t">>) >>
    ELSE << >>

\* What "list_share" returns: the top-level shared folders.
RemoteShares ==
    << [name |-> <<"m">>, path |-> <<"/", "m">>],
       [name |-> <<"c">>, path |-> <<"/", "c">>] >>

\* The token the NAS issues to an account.  The client never compares
\* tokens, so a token is told apart only by the account it was issued to.
Token(account) == <<"sid">> \o account

\* ------------------------------------------------------------------------
\* Responses of the NAS
\* ------------------------------------------------------------------------

\* client.py line 238: the code of "session expired".
SessionExpiredCode == 119

\* The other error codes of the NAS (one stands for all of them).
OtherCodes == {400}

\* What a request can come back with:
\* "ok": a JSON envelope with success = true;
\* "envelope": a JSON envelope with success = false and an error code;
\* "transport": the request raised (connection, timeout, HTTP error status);
\* "body": a binary body (the download endpoint only).
Responses ==
    { [kind |-> "ok", code |-> 0],
      [kind |-> "envelope", code |-> SessionExpiredCode],
      [kind |-> "transport", code |-> 0] }
    \cup { [kind |-> "envelope", code |-> c] : c \in OtherCodes }

DownloadResponses == Responses \cup { [kind |-> "body", code |-> 0] }

\* ------------------------------------------------------------------------
\* Exceptions
\* ------------------------------------------------------------------------

NoExc == [type |-> "none", code |-> 0]

SynologyAuthError == [type |-> "SynologyAuthError", code |-> 0]

SynologyAPIError(code) == [type |-> "SynologyAPIError", code |-> code]

SessionExpiredError == [type |-> "SessionExpiredError", code |-> 0]

\* requests.RequestException: the transport failed.
RequestException == [type |-> "RequestException", code |-> 0]

OSError == [type |-> "OSError", code |-> 0]

KeyError == [type |-> "KeyError", code |-> 0]

AttributeError == [type |-> "AttributeError", code |-> 0]

\* A _check_response that takes every error code for a session expiry.
EveryCodeExpires(r) ==
    IF r.kind = "ok" THEN NoExc ELSE SessionExpiredError

\* A _check_response that knows no session expiry.
EveryCodeAlike(r) ==
    IF r.kind = "ok" THEN NoExc ELSE SynologyAPIError(r.code)

\* _check_response: the exception a JSON envelope raises (NoExc: none).
CheckResponse(r) ==
    IF r.kind = "ok" THEN NoExc
    ELSE IF r.code = SessionExpiredCode THEN SessionExpiredError
    ELSE SynologyAPIError(r.code)

\* ------------------------------------------------------------------------
\* State
\* ------------------------------------------------------------------------

VARIABLES
    sid,            \* _sid: the session token, or None
    api_url,        \* _api_url
    username,       \* _username
    password,       \* _password
    folder_paths,   \* _folder_paths: a dict, folder -> custom NAS path
    model_cache,    \* _model_cache: a dict, folder -> sorted list of names
    auth_version,   \* _auth_version
    lock,           \* _lock: the thread holding it, or 0
    config,         \* what config.yaml holds of the client's fields
    files,          \* the files of the cache directory
    th,             \* each thread's frame: where it is, its locals
    ops,            \* public operations the callers may still start
    globals,        \* the module's _client and _client_lock, and history
    lastListing     \* history: per folder, what the last list_models
                    \* returned, while nothing has invalidated it

vars ==
    << sid, api_url, username, password, folder_paths, model_cache,
       auth_version, lock, config, files, th, ops, lastListing, globals >>

client == << sid, api_url, username, password, folder_paths, model_cache,
             auth_version, lock >>

\* A dict with no key.
EmptyDict == [k \in {} |-> << >>]

\* d[key] = value
DictSet(d, key, value) ==
    [k \in DOMAIN d \cup {key} |-> IF k = key THEN value ELSE d[k]]

\* d.pop(key, None)
DictPop(d, key) == [k \in DOMAIN d \ {key} |-> d[k]]

\* d.get(key): None when absent
DictGet(d, key) == IF key \in DOMAIN d THEN d[key] ELSE None

\* A thread's frame between two operations: the operation and its
\* arguments, the position in it, its locals, how it ended.  The fields
\* from "calls" on are history, of the running operation alone:
\*   calls          requests sent
\*   logins         login requests sent
\*   authchecks     _require_auth calls
\*   fileops        files created, written, renamed or removed
\*   bumps          writes of _auth_version
\*   noSidRequests  requests sent while _sid was None
\*   unauth         _sid has been None since the operation started
\*   cachedAtStart  the folders whose catalog, cached when the operation
\*                  started, has not been replaced since
\*   prev           what the last list_models of the folder had returned
\*                  when this one started, if nothing has invalidated it
\*   overlap        another thread was downloading the same file meanwhile
\*   removedOpen    it removed a file another thread had open for writing
\*   version0       _auth_version when the operation started
\*   existed        the file asked for was in the cache at the start
\*   leftover       the files of the operation still there when it ended
\*   answer         how the NAS answered the last request of this execution
\*   final          the session as logout left it
\*   nocreds        the re-login found no credentials
\*   stored         it stored a catalog
\*   resolved       what the key resolved to once set_folder_path had set it
\*   write, synced  whether save_config wrote the file, and whether the
\*                  file then held what the client held
\*   checks         the `_client is None` checks get_client made
\*   found          the bytes in the cache when clear_cache was called
\*   locks          the times it has taken _lock
\*   besideLock     it sent a request while another thread held _lock
\*   listed         the paths this execution of list_models has listed
\*   login_answer   how the NAS answered its login request
\*   intact         the file asked for, if in the cache at the start, held
\*                  its whole body and nobody had it open for writing
\* The locals `saving` and `loaded` are the config dicts of _persist_config
\* and of get_client.
\* History: the request of this execution has no answer yet.
NoAnswer == [kind |-> "none", code |-> 0]

\* The config _persist_config builds before it has read anything.
NoConfig ==
    [ api_url |-> << >>, username |-> << >>, password |-> << >>,
      folder_paths |-> << >> ]

\* History: the session as an operation leaves it.
NoSnapshot ==
    [ sid |-> << >>, username |-> << >>, password |-> << >>, cached |-> {},
      version |-> 0 ]

Snapshot ==
    [ sid |-> sid, username |-> username, password |-> password,
      cached |-> DOMAIN model_cache, version |-> auth_version ]

IdleFrame ==
    [ pc |-> "idle", op |-> "none",
      folder |-> << >>, path |-> << >>, filename |-> << >>, persist |-> FALSE,
      attempt |-> 0, base_path |-> << >>, stack |-> << >>, results |-> << >>,
      downloaded |-> 0, auth_version |-> 0, exc |-> NoExc,
      outcome |-> NoExc, result |-> << >>,
      saving |-> NoConfig, write |-> "none", synced |-> FALSE,
      loaded |-> NoConfig, checks |-> 0, found |-> 0, intact |-> TRUE,
      locks |-> 0, besideLock |-> FALSE, listed |-> << >>,
      login_answer |-> "none",
      calls |-> 0, logins |-> 0, authchecks |-> 0, fileops |-> 0, bumps |-> 0,
      noSidRequests |-> 0, unauth |-> FALSE, cachedAtStart |-> {},
      prev |-> {}, overlap |-> FALSE, removedOpen |-> FALSE, version0 |-> 0,
      existed |-> FALSE, leftover |-> {},
      answer |-> NoAnswer, final |-> NoSnapshot, nocreds |-> FALSE,
      stored |-> FALSE, resolved |-> << >> ]

\* The operation returns `result` or raises `exc`: its locals are gone.
Finish(fr, exc, result) ==
    [ fr EXCEPT !.pc = "done", !.outcome = exc, !.result = result,
                !.base_path = << >>, !.stack = << >>, !.results = << >>,
                !.downloaded = 0, !.auth_version = 0, !.exc = NoExc,
                !.saving = NoConfig, !.loaded = NoConfig, !.listed = << >> ]

Returns(fr, result) == Finish(fr, NoExc, result)

Raises(fr, exc) == Finish(fr, exc, << >>)

\* A request leaves the client: it carries _sid, whatever that is now.
Requested(fr) ==
    [ fr EXCEPT !.calls = @ + 1,
                !.noSidRequests = IF sid = None THEN @ + 1 ELSE @,
                !.besideLock = @ \/ lock # 0 ]

\* History: the answer to the request of this execution.
Answered(fr, r) == [fr EXCEPT !.answer = r]

Set(t, fr) == th' = [th EXCEPT ![t] = fr]

\* History: a step of login, logout, set_folder_path or of the retry
\* wrapper's re-login has intervened.
Invalidated(fr) == [fr EXCEPT !.prev = {}]

NoListing == [k \in Keys |-> {}]

SetInvalidating(t, fr) ==
    /\ th' = [s \in Threads |-> Invalidated(IF s = t THEN fr ELSE th[s])]
    /\ lastListing' = NoListing

\* A caller is free to start a public operation.
Idle(t) == th[t].pc = "idle" /\ ops > 0

\* The frame of an operation that starts.
Frame(op) ==
    [IdleFrame EXCEPT !.op = op, !.unauth = (sid = None),
                      !.cachedAtStart = DOMAIN model_cache,
                      !.version0 = auth_version]

\* The caller has its result or its exception.
Return(t) ==
    /\ th[t].pc = "done"
    /\ Set(t, IdleFrame)
    /\ UNCHANGED << client, config, files, ops, lastListing, globals >>

\* A SynologyClient object: the n-th the process has constructed.
Instance(n) == <<"SynologyClient", n>>

\* The module before get_client is called (lines 436-437).
NoClient ==
    [ client |-> None, client_lock |-> 0, constructed |-> 0, autologins |-> 0 ]

\* The module once get_client has returned, with or without an auto-login.
Got(autologins) ==
    [ client |-> Instance(1), client_lock |-> 0, constructed |-> 1,
      autologins |-> autologins ]

\* A constructed client that nobody has used yet, an empty cache directory.
Constructed ==
    /\ folder_paths = EmptyDict
    /\ model_cache = EmptyDict
    /\ lock = 0
    /\ files = {}
    /\ th = [t \in Threads |-> IdleFrame]
    /\ lastListing = NoListing

\* get_client found no credentials in config.yaml or the environment: no
\* auto-login was attempted.
Fresh ==
    /\ sid = None
    /\ api_url = None
    /\ username = None
    /\ password = None
    /\ auth_version = 0
    /\ config = [api_url |-> << >>, username |-> << >>, password |-> << >>,
                 folder_paths |-> EmptyDict]
    /\ globals = Got(0)

\* get_client found an endpoint and credentials, and its auto-login
\* (login without persist) succeeded.
AutoLoggedIn ==
    /\ sid = Token(<<"a">>)
    /\ api_url = <<"n">>
    /\ username = <<"a">>
    /\ password = <<"p">>
    /\ auth_version = 1
    /\ config = [api_url |-> <<"n">>, username |-> <<"a">>,
                 password |-> <<"p">>, folder_paths |-> EmptyDict]
    /\ globals = Got(1)

\* Init: the client as get_client returns it.
Init ==
    /\ Constructed
    /\ Fresh \/ AutoLoggedIn
    /\ ops = MaxOps

\* ------------------------------------------------------------------------
\* Config persistence
\* ------------------------------------------------------------------------

\* _persist_config: what it hands to save_config.
CurrentConfig ==
    [ api_url |-> OrEmpty(api_url), username |-> OrEmpty(username),
      password |-> OrEmpty(password), folder_paths |-> folder_paths ]

\* Lines 128-133: the config is built from the fields of the client.
PersistConfig(fr, save) == [fr EXCEPT !.pc = save, !.saving = CurrentConfig]

\* History: save_config has written the file or failed, and whether the
\* file then holds what the client holds.
Saved(fr, written, file) ==
    [ fr EXCEPT !.write = IF written THEN "ok" ELSE "failed",
                !.synced = (file = CurrentConfig) ]

\* Line 134, save_config: the file is written, or the write fails and is
\* only logged.
SaveConfig(t, fr) ==
    \/ /\ config' = fr.saving
       /\ SetInvalidating(t, Returns(Saved(fr, TRUE, fr.saving), None))
    \/ /\ config' = config
       /\ SetInvalidating(t, Returns(Saved(fr, FALSE, config), None))

\* ------------------------------------------------------------------------
\* get_client
\* ------------------------------------------------------------------------

\* What load_config returns of the client's fields, the environment merged:
\* nothing; an endpoint and an account without a secret; an endpoint and
\* credentials; the same with two folder paths, one of them empty.
ConfigInputs ==
    { [NoConfig EXCEPT !.folder_paths = EmptyDict],
      [NoConfig EXCEPT !.api_url = <<"n">>, !.username = <<"a">>,
                       !.folder_paths = EmptyDict],
      [api_url |-> <<"n">>, username |-> <<"a">>, password |-> <<"p">>,
       folder_paths |-> EmptyDict],
      [api_url |-> <<"n", "/">>, username |-> <<"a">>, password |-> <<"p">>,
       folder_paths |-> DictSet(DictSet(EmptyDict, Vae, <<"/", "c">>),
                                Loras, << >>)] }

\* A check that finds no client whatever _client is.
AlwaysNone(c) == TRUE

\* Lines 441 and 443: `_client is None`.
IsNone(c) == c = None

\* The second check, line 443, under _client_lock.
StillNone(c) == IsNone(c)

\* Line 441: the first check, without the lock.
GetClient(t) ==
    /\ Idle(t)
    /\ ops' = ops - 1
    /\ Set(t, [Frame("get_client") EXCEPT
                  !.checks = 1,
                  !.pc = IF IsNone(globals.client) THEN "gc_lock"
                         ELSE "gc_return"])
    /\ UNCHANGED << client, config, files, lastListing, globals >>

\* Lines 442-443: take _client_lock and check again; the lock is released
\* at once when a client is there.
GetClientLock(t) ==
    /\ th[t].pc = "gc_lock"
    /\ globals.client_lock = 0
    /\ IF StillNone(globals.client)
       THEN /\ globals' = [globals EXCEPT !.client_lock = t]
            /\ Set(t, [th[t] EXCEPT !.pc = "gc_construct", !.checks = 2])
       ELSE /\ Set(t, [th[t] EXCEPT !.pc = "gc_return", !.checks = 2])
            /\ UNCHANGED globals
    /\ UNCHANGED << client, config, files, ops, lastListing >>

\* Lines 445-447: load_config, and _client is a new SynologyClient whose
\* fields are those of __init__ (lines 95-105).
GetClientConstruct(t) ==
    /\ th[t].pc = "gc_construct"
    /\ globals' = [globals EXCEPT !.constructed = @ + 1,
                                  !.client = Instance(globals.constructed + 1)]
    /\ sid' = None
    /\ api_url' = None
    /\ username' = None
    /\ password' = None
    /\ folder_paths' = EmptyDict
    /\ model_cache' = EmptyDict
    /\ auth_version' = 0
    /\ lock' = 0
    /\ Set(t, [th[t] EXCEPT !.pc = "gc_configure", !.loaded = config])
    /\ UNCHANGED << config, files, ops, lastListing >>

\* Lines 448-457: the folder paths of the config that are not empty; then
\* the auto-login if the config has an endpoint and credentials, else the
\* end of `with _client_lock`.
GetClientConfigure(t) ==
    /\ th[t].pc = "gc_configure"
    /\ LET loaded == th[t].loaded
           paths == loaded.folder_paths
       IN  /\ folder_paths' =
                  IF DOMAIN paths # {}
                  THEN [k \in { j \in DOMAIN paths : Truthy(paths[j]) } |-> paths[k]]
                  ELSE folder_paths
           /\ IF /\ Truthy(loaded.api_url) /\ Truthy(loaded.username)
                 /\ Truthy(loaded.password)
              THEN /\ Set(t, [th[t] EXCEPT !.pc = "gc_login"])
                   /\ UNCHANGED globals
              ELSE /\ Set(t, [th[t] EXCEPT !.pc = "gc_return"])
                   /\ globals' = [globals EXCEPT !.client_lock = 0]
    /\ UNCHANGED << sid, api_url, username, password, model_cache,
                    auth_version, lock, config, files, ops, lastListing >>

\* Line 460: login(username, password, api_url) on the new client, called
\* inside `with _client_lock`; login takes the client's lock and stores
\* the endpoint and the credentials (lines 139-146).
GetClientLogin(t) ==
    /\ th[t].pc = "gc_login"
    /\ lock = 0
    /\ lock' = t
    /\ api_url' = RStripSlash(th[t].loaded.api_url)
    /\ username' = th[t].loaded.username
    /\ password' = th[t].loaded.password
    /\ Set(t, [th[t] EXCEPT !.pc = "gc_do_login"])
    /\ UNCHANGED << sid, folder_paths, model_cache, auth_version, config,
                    files, ops, lastListing, globals >>

\* Lines 147 and 461-462: the login request is answered, with a token or
\* with a failure that is logged; login leaves its `with self._lock`, and
\* get_client its `with _client_lock`.
GetClientLoggedIn(t) ==
    /\ th[t].pc = "gc_do_login"
    /\ \/ /\ sid' = Token(username)
          /\ model_cache' = EmptyDict
          /\ auth_version' = auth_version + 1
       \/ UNCHANGED << sid, model_cache, auth_version >>
    /\ lock' = 0
    /\ globals' = [globals EXCEPT !.autologins = @ + 1, !.client_lock = 0]
    /\ Set(t, [th[t] EXCEPT !.pc = "gc_return", !.logins = @ + 1])
    /\ UNCHANGED << api_url, username, password, folder_paths, config,
                    files, ops, lastListing >>

\* Line 463.
GetClientReturn(t) ==
    /\ th[t].pc = "gc_return"
    /\ Set(t, Returns(th[t], globals.client))
    /\ UNCHANGED << client, config, files, ops, lastListing, globals >>

\* ------------------------------------------------------------------------
\* The session-retry wrapper
\* ------------------------------------------------------------------------

\* Where fn starts, for each operation run through _with_session_retry.
FnEntry(op) == IF op = "list_models" THEN "lm_do" ELSE "auth"

\* _with_session_retry calls fn (lines 212 and 220).
EnterFn(fr) ==
    [ fr EXCEPT !.pc = FnEntry(fr.op), !.attempt = @ + 1,
                !.base_path = << >>, !.stack = << >>, !.results = << >>,
                !.downloaded = 0, !.exc = NoExc, !.answer = NoAnswer ]

\* A wrapper that calls fn again without logging in again.
RetryWithoutLogin(fr, exc) ==
    IF fr.attempt = 1 /\ exc = SessionExpiredError
    THEN EnterFn(fr)
    ELSE Raises(fr, exc)

\* A wrapper that also catches what the second call raises.
RetryAgain(fr, exc) ==
    IF fr.attempt <= 2 /\ exc = SessionExpiredError
    THEN [ fr EXCEPT !.pc = "reauth",
                     !.base_path = << >>, !.stack = << >>, !.results = << >>,
                     !.downloaded = 0, !.exc = NoExc, !.listed = << >> ]
    ELSE Raises(fr, exc)

\* fn raises `exc`: line 213 catches SessionExpiredError raised by the
\* first call (line 212); whatever the second call (line 220) raises
\* propagates.
FnRaises(fr, exc) ==
    IF fr.attempt = 1 /\ exc = SessionExpiredError
    THEN [ fr EXCEPT !.pc = "reauth",
                     !.base_path = << >>, !.stack = << >>, !.results = << >>,
                     !.downloaded = 0, !.exc = NoExc, !.listed = << >> ]
    ELSE Raises(fr, exc)

\* A wrapper that logs in again whatever it has cached.
AlwaysCredentials == TRUE

\* Line 215: are there credentials to log in again with?
HasCredentials == Truthy(username) /\ Truthy(password)

\* History: the session expired while the account or the secret was None.
Unrefreshable(fr) ==
    [fr EXCEPT !.nocreds = ~(Truthy(username) /\ Truthy(password))]

\* Lines 214-219: take the lock; with credentials re-login, else raise.
Reauth(t) ==
    /\ th[t].pc = "reauth"
    /\ lock = 0
    /\ IF HasCredentials
       THEN /\ lock' = t
            /\ SetInvalidating(t, [Unrefreshable(th[t]) EXCEPT
                                     !.pc = "do_login", !.locks = @ + 1])
       ELSE /\ SetInvalidating(t, Raises([Unrefreshable(th[t]) EXCEPT
                                            !.locks = @ + 1],
                                         SynologyAuthError))
            /\ UNCHANGED lock
    /\ UNCHANGED << sid, api_url, username, password, folder_paths,
                    model_cache, auth_version, config, files, ops, globals >>

\* ------------------------------------------------------------------------
\* login
\* ------------------------------------------------------------------------

\* Lines 139-146: take the lock, set the endpoint, store the credentials.
Login(t) ==
    /\ Idle(t)
    /\ lock = 0
    /\ ops' = ops - 1
    /\ \E u \in Accounts, p \in Passwords, url \in UrlInputs, persist \in BOOLEAN :
         LET new_url == IF Truthy(url) THEN RStripSlash(url) ELSE api_url
             fr == [Frame("login") EXCEPT !.persist = persist]
         IN  /\ api_url' = new_url
             /\ IF ~Truthy(new_url)
                THEN /\ SetInvalidating(t, Raises(fr, SynologyAuthError))
                     /\ UNCHANGED << username, password, lock >>
                ELSE /\ username' = u
                     /\ password' = p
                     /\ lock' = t
                     /\ SetInvalidating(t, [fr EXCEPT !.pc = "do_login"])
    /\ UNCHANGED << sid, folder_paths, model_cache, auth_version, config,
                    files, globals >>

\* History: a token has arrived, no operation is unauthenticated any more.
Authenticated(fr) == [fr EXCEPT !.unauth = FALSE]

\* A _do_login that takes every response for a success.
LoginNeverFails(r) == NoExc

\* Lines 169-173: what the response to the login request raises.
LoginFailure(r) ==
    CASE r.kind = "transport" -> RequestException
      [] r.kind = "envelope" -> SynologyAuthError
      [] OTHER -> NoExc

\* _do_login, lines 155-175: the login request and, on success, the token.
\* An exception leaves the caller's `with self._lock`: the lock is released.
DoLoginRequest(t) ==
    /\ th[t].pc = "do_login"
    /\ \E r \in Responses :
         LET fr == [th[t] EXCEPT !.calls = @ + 1, !.logins = @ + 1,
                                 !.login_answer = r.kind]
         IN  IF LoginFailure(r) # NoExc
             THEN /\ SetInvalidating(t, Raises(fr, LoginFailure(r)))
                  /\ lock' = 0
                  /\ UNCHANGED sid
             ELSE   /\ sid' = Token(username)
                    /\ th' = [s \in Threads |-> Authenticated(Invalidated(
                                IF s = t THEN [fr EXCEPT !.pc = "do_login_clear"]
                                ELSE th[s]))]
                    /\ lastListing' = NoListing
                    /\ UNCHANGED lock
    /\ UNCHANGED << api_url, username, password, folder_paths, model_cache,
                    auth_version, config, files, ops, globals >>

\* _do_login, line 176.
DoLoginClear(t) ==
    /\ th[t].pc = "do_login_clear"
    /\ model_cache' = EmptyDict
    /\ SetInvalidating(t, [th[t] EXCEPT !.pc = "do_login_bump"])
    /\ UNCHANGED << sid, api_url, username, password, folder_paths,
                    auth_version, lock, config, files, ops, globals >>

\* Line 177, `self._auth_version += 1`: the read.
DoLoginBump(t) ==
    /\ th[t].pc = "do_login_bump"
    /\ SetInvalidating(t, [th[t] EXCEPT !.pc = "do_login_store",
                                        !.auth_version = auth_version])
    /\ UNCHANGED << client, config, files, ops, globals >>

\* A wrapper whose second call of fn is inside `with self._lock`.
HeldAcrossFn(t) == t

\* Line 220 is outside the `with self._lock` of line 214: the lock is free
\* when fn is called again.
AfterRelogin(t) == 0

\* Line 177: the write.  _do_login returns: login goes on to persist, the
\* retry wrapper leaves its `with self._lock` and calls fn again.
DoLoginStore(t) ==
    /\ th[t].pc = "do_login_store"
    /\ auth_version' = th[t].auth_version + 1
    /\ LET fr == [th[t] EXCEPT !.bumps = @ + 1]
       IN  IF fr.op = "login"
           THEN /\ SetInvalidating(t, [fr EXCEPT !.pc = "login_persist"])
                /\ UNCHANGED lock
           ELSE /\ SetInvalidating(t, EnterFn(fr))
                /\ lock' = AfterRelogin(t)
    /\ UNCHANGED << sid, api_url, username, password, folder_paths,
                    model_cache, config, files, ops, globals >>

\* Lines 150-151: _persist_config builds the config if `persist`; else
\* the end of login's `with self._lock`.
LoginPersist(t) ==
    /\ th[t].pc = "login_persist"
    /\ IF th[t].persist
       THEN /\ SetInvalidating(t, PersistConfig(th[t], "login_save"))
            /\ UNCHANGED lock
       ELSE /\ SetInvalidating(t, Returns(
                   [th[t] EXCEPT !.synced = (config = CurrentConfig)], None))
            /\ lock' = 0
    /\ UNCHANGED << sid, api_url, username, password, folder_paths,
                    model_cache, auth_version, config, files, ops, globals >>

\* save_config, and the end of login's `with self._lock`.
LoginSave(t) ==
    /\ th[t].pc = "login_save"
    /\ SaveConfig(t, th[t])
    /\ lock' = 0
    /\ UNCHANGED << sid, api_url, username, password, folder_paths,
                    model_cache, auth_version, files, ops, globals >>

\* ------------------------------------------------------------------------
\* logout
\* ------------------------------------------------------------------------

\* Lines 181-197: take the lock; the best-effort logout request, whose
\* response and failures are ignored.
Logout(t) ==
    /\ Idle(t)
    /\ lock = 0
    /\ ops' = ops - 1
    /\ lock' = t
    /\ LET fr == [Frame("logout") EXCEPT !.pc = "logout_clear"]
       IN  IF Truthy(sid) /\ Truthy(api_url)
           THEN SetInvalidating(t, Requested(fr))
           ELSE SetInvalidating(t, fr)
    /\ UNCHANGED << sid, api_url, username, password, folder_paths,
                    model_cache, auth_version, config, files, globals >>

\* A logout that keeps the credentials.
Remembered(value) == value

\* Lines 200-201: the account and the secret are set to None.
Forgotten(value) == None

\* Lines 199-202.
LogoutClear(t) ==
    /\ th[t].pc = "logout_clear"
    /\ sid' = None
    /\ username' = Forgotten(username)
    /\ password' = Forgotten(password)
    /\ model_cache' = EmptyDict
    /\ SetInvalidating(t, [th[t] EXCEPT !.pc = "logout_bump"])
    /\ UNCHANGED << api_url, folder_paths, auth_version, lock, config,
                    files, ops, globals >>

\* Line 203, `self._auth_version += 1`: the read.
LogoutBump(t) ==
    /\ th[t].pc = "logout_bump"
    /\ SetInvalidating(t, [th[t] EXCEPT !.pc = "logout_store",
                                        !.auth_version = auth_version])
    /\ UNCHANGED << client, config, files, ops, globals >>

\* Line 203: the write.
LogoutStore(t) ==
    /\ th[t].pc = "logout_store"
    /\ auth_version' = th[t].auth_version + 1
    /\ SetInvalidating(t, [th[t] EXCEPT !.pc = "logout_persist",
                                        !.bumps = @ + 1])
    /\ UNCHANGED << sid, api_url, username, password, folder_paths,
                    model_cache, lock, config, files, ops, globals >>

\* Line 204: _persist_config builds the config.
LogoutPersist(t) ==
    /\ th[t].pc = "logout_persist"
    /\ SetInvalidating(t, PersistConfig(th[t], "logout_save"))
    /\ UNCHANGED << client, config, files, ops, globals >>

\* save_config, and the end of logout's `with self._lock`.
LogoutSave(t) ==
    /\ th[t].pc = "logout_save"
    /\ SaveConfig(t, [th[t] EXCEPT !.final = Snapshot])
    /\ lock' = 0
    /\ UNCHANGED << sid, api_url, username, password, folder_paths,
                    model_cache, auth_version, files, ops, globals >>

\* ------------------------------------------------------------------------
\* set_folder_path
\* ------------------------------------------------------------------------

\* _resolve_folder_path, with `paths` for _folder_paths.
Resolved(paths, folder) ==
    LET custom == DictGet(paths, folder)
    IN  IF Truthy(custom) THEN RStripSlash(custom)
        ELSE Join(models_base_path, folder)

\* Lines 248-251.
SetFolderPathTo(t, paths_in) ==
    /\ Idle(t)
    /\ ops' = ops - 1
    /\ \E folder \in Keys, path \in paths_in :
         LET paths == IF Truthy(path)
                      THEN DictSet(folder_paths, folder, RStripSlash(path))
                      ELSE DictPop(folder_paths, folder)
         IN  /\ folder_paths' = paths
             /\ SetInvalidating(t, [Frame("set_folder_path") EXCEPT
                      !.pc = "sfp_pop", !.folder = folder, !.path = path,
                      !.resolved = Resolved(paths, folder)])
    /\ UNCHANGED << sid, api_url, username, password, model_cache,
                    auth_version, lock, config, files, globals >>

\* A set_folder_path that evicts nothing.
KeepAll(cache, folder) == cache

SetFolderPath(t) == SetFolderPathTo(t, FolderPathInputs)

\* set_folder_path called with any of the paths, the edge cases included.
SetFolderPathEdge(t) == SetFolderPathTo(t, EdgeFolderPathInputs)

\* A set_folder_path that evicts every catalog.
EvictAll(cache, folder) == EmptyDict

\* Line 252: the catalogs left when set_folder_path has evicted `folder`'s.
Evicted(cache, folder) == DictPop(cache, folder)

SetFolderPathPop(t) ==
    /\ th[t].pc = "sfp_pop"
    /\ model_cache' = Evicted(model_cache, th[t].folder)
    /\ SetInvalidating(t, [th[t] EXCEPT !.pc = "sfp_bump"])
    /\ UNCHANGED << sid, api_url, username, password, folder_paths,
                    auth_version, lock, config, files, ops, globals >>

\* Line 253, `self._auth_version += 1`: the read.
SetFolderPathBump(t) ==
    /\ th[t].pc = "sfp_bump"
    /\ SetInvalidating(t, [th[t] EXCEPT !.pc = "sfp_store",
                                        !.auth_version = auth_version])
    /\ UNCHANGED << client, config, files, ops, globals >>

\* Line 253: the write.
SetFolderPathStore(t) ==
    /\ th[t].pc = "sfp_store"
    /\ auth_version' = th[t].auth_version + 1
    /\ SetInvalidating(t, [th[t] EXCEPT !.pc = "sfp_persist", !.bumps = @ + 1])
    /\ UNCHANGED << sid, api_url, username, password, folder_paths,
                    model_cache, lock, config, files, ops, globals >>

\* Line 254: _persist_config builds the config.
SetFolderPathPersist(t) ==
    /\ th[t].pc = "sfp_persist"
    /\ SetInvalidating(t, PersistConfig(th[t], "sfp_save"))
    /\ UNCHANGED << client, config, files, ops, globals >>

\* save_config.
SetFolderPathSave(t) ==
    /\ th[t].pc = "sfp_save"
    /\ SaveConfig(t, th[t])
    /\ UNCHANGED << client, files, ops, globals >>

\* ------------------------------------------------------------------------
\* Listing: list_shares, list_directory, list_models
\* ------------------------------------------------------------------------

\* _resolve_folder_path
ResolveFolderPath(folder) == Resolved(folder_paths, folder)

\* _require_auth, the first statement of fn and of _list_folder: the
\* frame after it.
RequireAuth(fr) ==
    IF ~Truthy(sid)
    THEN FnRaises([fr EXCEPT !.authchecks = @ + 1], SynologyAuthError)
    ELSE [fr EXCEPT !.authchecks = @ + 1, !.pc = "request"]

\* fn, called again after the re-login, or _list_folder, called for the
\* next path of the stack, starts with _require_auth.
Auth(t) ==
    /\ th[t].pc = "auth"
    /\ Set(t, RequireAuth(th[t]))
    /\ UNCHANGED << client, config, files, ops, lastListing, globals >>

\* sorted(entries, key=name), stable.
RECURSIVE InsertByName(_, _)
InsertByName(x, s) ==
    IF s = << >> THEN <<x>>
    ELSE IF StrLess(x.name, s[1].name) THEN <<x>> \o s
    ELSE <<s[1]>> \o InsertByName(x, Tail(s))

RECURSIVE SortedByName(_)
SortedByName(s) ==
    IF s = << >> THEN << >>
    ELSE InsertByName(s[Len(s)], SortedByName(SubSeq(s, 1, Len(s) - 1)))

\* [{"name": e["name"], "path": e["path"]} for e in entries if keep(e)]
RECURSIVE NamesAndPaths(_, _)
NamesAndPaths(entries, dirsOnly) ==
    IF entries = << >> THEN << >>
    ELSE LET e == entries[1]
             rest == NamesAndPaths(Tail(entries), dirsOnly)
         IN  IF dirsOnly /\ ~e.isdir THEN rest
             ELSE <<[name |-> e.name, path |-> e.path]>> \o rest

\* What a listing request raises for a response other than "ok".
ListingFailure(r) ==
    IF r.kind = "transport" THEN RequestException ELSE CheckResponse(r)

\* list_shares, line 281: the retry wrapper calls _do, which starts with
\* _require_auth.
ListShares(t) ==
    /\ Idle(t)
    /\ ops' = ops - 1
    /\ Set(t, RequireAuth(EnterFn(Frame("list_shares"))))
    /\ UNCHANGED << client, config, files, lastListing, globals >>

\* list_directory, lines 286-314: "/" is answered by list_shares.
ListDirectory(t) ==
    /\ Idle(t)
    /\ ops' = ops - 1
    /\ \E path \in DirectoryInputs :
         Set(t, RequireAuth(EnterFn([Frame("list_directory") EXCEPT
                                       !.path = path])))
    /\ UNCHANGED << client, config, files, lastListing, globals >>

\* list_shares._do, lines 260-279.
ListSharesRequest(t) ==
    /\ th[t].pc = "request"
    /\ \/ th[t].op = "list_shares"
       \/ th[t].op = "list_directory" /\ th[t].path = <<"/">>
    /\ \E r \in Responses :
         LET fr == Answered(Requested(th[t]), r)
         IN  IF r.kind = "ok"
             THEN Set(t, Returns(fr, SortedByName(RemoteShares)))
             ELSE Set(t, FnRaises(fr, ListingFailure(r)))
    /\ UNCHANGED << client, config, files, ops, lastListing, globals >>

\* list_directory._do, lines 291-312.
ListDirectoryRequest(t) ==
    /\ th[t].pc = "request"
    /\ th[t].op = "list_directory" /\ th[t].path # <<"/">>
    /\ \E r \in Responses :
         LET fr == Answered(Requested(th[t]), r)
         IN  IF r.kind = "ok"
             THEN Set(t, Returns(fr, SortedByName(
                         NamesAndPaths(RemoteList(th[t].path), TRUE))))
             ELSE Set(t, FnRaises(fr, ListingFailure(r)))
    /\ UNCHANGED << client, config, files, ops, lastListing, globals >>

\* Is `folder` cached?  (line 340)
Cached(folder) == folder \in DOMAIN model_cache

\* list_models returns `result` (lines 341 and 367).
ListModelsReturns(t, fr, result) ==
    /\ Set(t, Returns(fr, result))
    /\ lastListing' = [lastListing EXCEPT ![fr.folder] = {result}]

\* Line 340, else the retry wrapper's first call of _do.
ListModels(t) ==
    /\ Idle(t)
    /\ ops' = ops - 1
    /\ \E folder \in Keys :
         LET fr == [Frame("list_models") EXCEPT
                      !.folder = folder, !.prev = lastListing[folder]]
         IN  IF Cached(folder)
             THEN Set(t, [fr EXCEPT !.pc = "lm_hit"])
             ELSE Set(t, EnterFn(fr))
    /\ UNCHANGED << client, config, files, lastListing, globals >>

\* Line 341: the dict is read, outside the retry wrapper.
ListModelsHit(t) ==
    /\ th[t].pc = "lm_hit"
    /\ IF Cached(th[t].folder)
       THEN ListModelsReturns(t, th[t], model_cache[th[t].folder])
       ELSE Set(t, Raises(th[t], KeyError)) /\ UNCHANGED lastListing
    /\ UNCHANGED << client, config, files, ops, globals >>

\* list_models._do, lines 344-346.  The path being listed stays on top of
\* the stack until its listing has arrived.
ListModelsDo(t) ==
    /\ th[t].pc = "lm_do"
    /\ LET base_path == ResolveFolderPath(th[t].folder)
       IN  Set(t, [th[t] EXCEPT !.pc = "auth", !.base_path = base_path,
                                !.results = << >>, !.stack = <<base_path>>,
                                !.listed = << >>])
    /\ UNCHANGED << client, config, files, ops, lastListing, globals >>

\* The suffixes of model files (line 356).
ModelSuffixes ==
    { <<".", "s", "a", "f", "e", "t", "e", "n", "s", "o", "r", "s">>,
      <<".", "c", "k", "p", "t">>, <<".", "p", "t">>, <<".", "p", "t", "h">>,
      <<".", "b", "i", "n">> }

\* A filter that keeps every file.
AnyFile(name) == TRUE

IsModelFile(name) == \E suffix \in ModelSuffixes : EndsWith(Lower(name), suffix)

\* A relative path that is cut after any prefix equal to the base folder.
RelativeLoose(entry, base_path) ==
    IF StartsWith(entry.path, base_path)
    THEN SubSeq(entry.path, Len(base_path) + 2, Len(entry.path))
    ELSE entry.name

\* Lines 359-363: the path relative to the base folder.
Relative(entry, base_path) ==
    IF StartsWith(entry.path, base_path \o <<"/">>)
    THEN SubSeq(entry.path, Len(base_path) + 2, Len(entry.path))
    ELSE entry.name

\* A loop that does not go into the directories.
VisitFlat(entries, stack, results, base_path) ==
    <<stack, results \o
        [i \in 1..Len(entries) |-> Relative(entries[i], base_path)]>>

\* Lines 351-364: the loop over the entries of one listing; the pair of
\* the stack and the results after it.
RECURSIVE Visit(_, _, _, _)
Visit(entries, stack, results, base_path) ==
    IF entries = << >> THEN <<stack, results>>
    ELSE LET e == entries[1]
         IN  IF e.isdir
             THEN Visit(Tail(entries), Append(stack, e.path), results, base_path)
             ELSE IF ~IsModelFile(e.name)
             THEN Visit(Tail(entries), stack, results, base_path)
             ELSE Visit(Tail(entries), stack,
                        Append(results, Relative(e, base_path)), base_path)

\* _list_folder's request (lines 319-334) for the path popped at line 349,
\* and the loop over what it returns.
ListFolderRequest(t) ==
    /\ th[t].pc = "request"
    /\ th[t].op = "list_models"
    /\ \E r \in Responses :
         LET fr == Answered(Requested(th[t]), r)
             current == fr.stack[Len(fr.stack)]
             popped == SubSeq(fr.stack, 1, Len(fr.stack) - 1)
             after == Visit(RemoteList(current), popped, fr.results, fr.base_path)
         IN  \* the NAS lists only a directory it has
             /\ r.kind = "ok" => current \in RemoteDirs
             /\ IF r.kind = "ok"
                THEN Set(t, [fr EXCEPT !.stack = after[1], !.results = after[2],
                                       !.listed = Append(@, current),
                                       !.pc = IF after[1] = << >> THEN "lm_store"
                                              ELSE "auth"])
                ELSE Set(t, FnRaises(fr, ListingFailure(r)))
    /\ UNCHANGED << client, config, files, ops, lastListing, globals >>

\* History: the catalog of `folder` cached when an operation started is
\* replaced.
Replaced(fr, folder) == [fr EXCEPT !.cachedAtStart = @ \ {folder}]

\* Line 366.
ListModelsStore(t) ==
    /\ th[t].pc = "lm_store"
    /\ model_cache' = DictSet(model_cache, th[t].folder, Sorted(th[t].results))
    /\ th' = [s \in Threads |-> Replaced(
                IF s = t THEN [th[t] EXCEPT !.pc = "lm_return", !.stored = TRUE]
                ELSE th[s],
                th[t].folder)]
    /\ UNCHANGED << sid, api_url, username, password, folder_paths,
                    auth_version, lock, config, files, ops, lastListing,
                    globals >>

\* Line 367: the dict is read again.
ListModelsReturn(t) ==
    /\ th[t].pc = "lm_return"
    /\ IF Cached(th[t].folder)
       THEN ListModelsReturns(t, th[t], model_cache[th[t].folder])
       ELSE Set(t, FnRaises(th[t], KeyError)) /\ UNCHANGED lastListing
    /\ UNCHANGED << client, config, files, ops, globals >>

\* ------------------------------------------------------------------------
\* The files of the cache directory
\* ------------------------------------------------------------------------

\* `files` is a set of files, each [names, chunks, writers]: the paths that
\* name it, the chunks of the body it holds, and the threads holding it
\* open for writing.  A file that is unlinked while open lives on, without
\* a name, until it is closed.

AllChunks == 1..NChunks

Exists(name) == \E f \in files : name \in f.names

Collect(fs) == { f \in fs : f.names # {} \/ f.writers # {} }

\* open(name, "wb"): the file is created, or truncated if it exists.
Open(fs, t, name) ==
    IF \E f \in fs : name \in f.names
    THEN { IF name \in f.names
           THEN [f EXCEPT !.chunks = {}, !.writers = @ \cup {t}]
           ELSE f : f \in fs }
    ELSE fs \cup { [names |-> {name}, chunks |-> {}, writers |-> {t}] }

\* f.write(chunk) on the file t holds open.
Write(fs, t, i) ==
    { IF t \in f.writers THEN [f EXCEPT !.chunks = @ \cup {i}] ELSE f : f \in fs }

\* f.close()
Close(fs, t) ==
    Collect({ [f EXCEPT !.writers = @ \ {t}] : f \in fs })

\* A remove that leaves the file.
NotRemoved(fs, name) == fs

\* os.remove(name)
Remove(fs, name) ==
    Collect({ [f EXCEPT !.names = @ \ {name}] : f \in fs })

\* os.rename(src, dst), src existing: dst now names src's file.
Rename(fs, src, dst) ==
    Collect({ IF src \in f.names
              THEN [f EXCEPT !.names = (@ \ {src}) \cup {dst}]
              ELSE [f EXCEPT !.names = @ \ {dst}] : f \in fs })

\* The names of the files there are, and the bytes they hold (a chunk is
\* a byte).
Names(fs) == UNION { f.names : f \in fs }

RECURSIVE Bytes(_)
Bytes(fs) ==
    IF fs = {} THEN 0
    ELSE LET f == CHOOSE g \in fs : TRUE
         IN  Cardinality(f.chunks) + Bytes(fs \ {f})

\* ------------------------------------------------------------------------
\* SynologyClearCache.clear (nodes.py)
\* ------------------------------------------------------------------------

\* The attributes class SynologyClient defines (client.py lines 94-430) and
\* those __init__ sets.
ClientAttributes ==
    { "__init__", "auth_version", "authenticated", "username", "api_url",
      "_persist_config", "login", "_do_login", "logout",
      "_with_session_retry", "_resolve_folder_path", "_require_auth",
      "_check_response", "get_folder_path", "set_folder_path", "list_shares",
      "list_directory", "_list_folder", "list_models", "download_model",
      "_lock", "_sid", "_api_url", "_username", "_password",
      "_models_base_path", "_folder_paths", "_cache_dir", "_model_cache",
      "_auth_version" }

\* client.<name>: the attribute is looked up; AttributeError when the
\* client has none of that name.
GetAttr(fr, name) ==
    IF name \in ClientAttributes THEN [fr EXCEPT !.pc = name]
    ELSE Raises(fr, AttributeError)

\* nodes.py lines 344-345, `confirm` true: client.clear_cache().
ClearCache(t) ==
    /\ Idle(t)
    /\ ops' = ops - 1
    /\ Set(t, GetAttr([Frame("clear_cache") EXCEPT
                          !.found = Bytes(files), !.leftover = Names(files)],
                      "clear_cache"))
    /\ UNCHANGED << client, config, files, lastListing, globals >>

\* ------------------------------------------------------------------------
\* download_model
\* ------------------------------------------------------------------------

\* Lines 375-376.
LocalPath(folder, filename) == Join(Join(cache_dir, folder), filename)

\* Line 412.
TmpPath(local_path) == local_path \o <<".", "t", "m", "p">>

\* History: the file `name`, if there is one, holds every chunk of its body
\* and no thread has it open for writing.
Intact(name) ==
    \A f \in files :
        name \in f.names => f.writers = {} /\ f.chunks = 1..NChunks

\* A download that never finds the file in the cache.
NeverHit(local_path) == FALSE

\* Line 378: is the file already in the cache?
CacheHit(local_path) == Exists(local_path)

\* History: is thread s downloading the file (folder, filename) now?
Downloading(s, folder, filename) ==
    /\ th[s].op = "download_model"
    /\ th[s].pc \notin {"idle", "done"}
    /\ th[s].folder = folder /\ th[s].filename = filename

Overlapped(fr) == [fr EXCEPT !.overlap = TRUE]

\* Lines 375-380, else the retry wrapper's first call of _do, which starts
\* with _require_auth.
DownloadModel(t) ==
    /\ Idle(t)
    /\ ops' = ops - 1
    /\ \E d \in DownloadInputs :
         LET fr == [Frame("download_model") EXCEPT
                      !.folder = d[1], !.filename = d[2],
                      !.existed = Exists(LocalPath(d[1], d[2])),
                      !.intact = Intact(LocalPath(d[1], d[2]))]
             others == { s \in Threads \ {t} : Downloading(s, d[1], d[2]) }
         IN  IF CacheHit(LocalPath(d[1], d[2]))
             THEN Set(t, Returns(fr, LocalPath(d[1], d[2])))
             ELSE th' = [s \in Threads |->
                           IF s = t
                           THEN RequireAuth(EnterFn(
                                  IF others # {} THEN Overlapped(fr) ELSE fr))
                           ELSE IF s \in others THEN Overlapped(th[s])
                           ELSE th[s]]
    /\ UNCHANGED << client, config, files, lastListing, globals >>

\* download_model._do, lines 384-406: the request and what it raises.
DownloadRequest(t) ==
    /\ th[t].pc = "request"
    /\ th[t].op = "download_model"
    /\ \E r \in DownloadResponses :
         LET fr == Answered(Requested(th[t]), r)
         IN  CASE r.kind = "transport" ->
                    Set(t, FnRaises(fr, RequestException))
               [] r.kind = "envelope" ->
                    Set(t, FnRaises(fr, CheckResponse(r)))
               [] r.kind = "ok" ->
                    Set(t, FnRaises(fr, SynologyAPIError(0)))
               [] OTHER ->
                    Set(t, [fr EXCEPT !.pc = "dl_open"])
    /\ UNCHANGED << client, config, files, ops, lastListing, globals >>

\* Lines 411-414: makedirs, then open(tmp_path, "wb") inside the try.
DownloadOpen(t) ==
    /\ th[t].pc = "dl_open"
    /\ LET tmp_path == TmpPath(LocalPath(th[t].folder, th[t].filename))
       IN  \/ \* makedirs fails
              /\ Set(t, FnRaises(th[t], OSError))
              /\ UNCHANGED files
           \/ \* open fails
              /\ Set(t, [th[t] EXCEPT !.pc = "dl_cleanup", !.exc = OSError])
              /\ UNCHANGED files
           \/ /\ files' = Open(files, t, tmp_path)
              /\ Set(t, [th[t] EXCEPT !.pc = "dl_write", !.fileops = @ + 1])
    /\ UNCHANGED << client, config, ops, lastListing, globals >>

\* Lines 415-420: one chunk is read from the response and written; a
\* failure of either closes the file on the way to the except clause.
DownloadWrite(t) ==
    /\ th[t].pc = "dl_write"
    /\ th[t].downloaded < NChunks
    /\ \/ /\ files' = Write(files, t, th[t].downloaded + 1)
          /\ Set(t, [th[t] EXCEPT !.downloaded = @ + 1, !.fileops = @ + 1])
       \/ /\ files' = Close(files, t)
          /\ \E e \in {OSError, RequestException} :
               Set(t, [th[t] EXCEPT !.pc = "dl_cleanup", !.exc = e])
    /\ UNCHANGED << client, config, ops, lastListing, globals >>

\* Line 421, after the `with` has closed the file: os.rename.
DownloadRename(t) ==
    /\ th[t].pc = "dl_write"
    /\ th[t].downloaded = NChunks
    /\ LET local_path == LocalPath(th[t].folder, th[t].filename)
           tmp_path == TmpPath(local_path)
           closed == Close(files, t)
       IN  \/ /\ \E f \in closed : tmp_path \in f.names
              /\ files' = Rename(closed, tmp_path, local_path)
              /\ Set(t, Returns([th[t] EXCEPT !.fileops = @ + 1], local_path))
           \/ \* os.rename fails: tmp_path is gone, or the OS refuses
              /\ files' = closed
              /\ Set(t, [th[t] EXCEPT !.pc = "dl_cleanup", !.exc = OSError])
    /\ UNCHANGED << client, config, ops, lastListing, globals >>

\* Lines 422-425: the except clause.
DownloadCleanup(t) ==
    /\ th[t].pc = "dl_cleanup"
    /\ LET tmp_path == TmpPath(LocalPath(th[t].folder, th[t].filename))
           open == \E f \in files : tmp_path \in f.names /\ f.writers # {}
           local_path == LocalPath(th[t].folder, th[t].filename)
           left(fs) == { p \in {local_path, tmp_path} :
                           \E f \in fs : p \in f.names }
       IN  IF Exists(tmp_path)
           THEN /\ files' = Remove(files, tmp_path)
                /\ Set(t, FnRaises([th[t] EXCEPT
                                      !.fileops = @ + 1, !.removedOpen = open,
                                      !.leftover = left(Remove(files, tmp_path))],
                                   th[t].exc))
           ELSE /\ UNCHANGED files
                /\ Set(t, FnRaises([th[t] EXCEPT !.leftover = left(files)],
                                   th[t].exc))
    /\ UNCHANGED << client, config, ops, lastListing, globals >>

\* ------------------------------------------------------------------------
\* The specifications
\* ------------------------------------------------------------------------

Session(t) ==
    \/ Login(t) \/ DoLoginRequest(t) \/ DoLoginClear(t) \/ DoLoginBump(t)
    \/ DoLoginStore(t) \/ LoginPersist(t) \/ LoginSave(t)
    \/ Logout(t) \/ LogoutClear(t) \/ LogoutBump(t) \/ LogoutStore(t)
    \/ LogoutPersist(t) \/ LogoutSave(t)
    \/ Reauth(t) \/ Auth(t) \/ Return(t)

Folders(t) ==
    \/ SetFolderPath(t) \/ SetFolderPathPop(t) \/ SetFolderPathBump(t)
    \/ SetFolderPathStore(t) \/ SetFolderPathPersist(t)
    \/ SetFolderPathSave(t)

Browse(t) ==
    \/ ListShares(t) \/ ListDirectory(t) \/ ListSharesRequest(t)
    \/ ListDirectoryRequest(t)

Catalog(t) ==
    \/ ListModels(t) \/ ListModelsHit(t) \/ ListModelsDo(t)
    \/ ListFolderRequest(t)
    \/ ListModelsStore(t) \/ ListModelsReturn(t)

Download(t) ==
    \/ DownloadModel(t) \/ DownloadRequest(t) \/ DownloadOpen(t)
    \/ DownloadWrite(t) \/ DownloadRename(t) \/ DownloadCleanup(t)

\* Threads call every public operation of the client.
Next ==
    \E t \in Threads :
        Session(t) \/ Folders(t) \/ Browse(t) \/ Catalog(t) \/ Download(t)

Spec == Init /\ [][Next]_vars

\* Threads set folder paths, the edge cases included.
InitFolders == Constructed /\ (Fresh \/ AutoLoggedIn) /\ ops = MaxFolderOps

NextFolders ==
    \E t \in Threads :
        \/ SetFolderPathEdge(t) \/ SetFolderPathPop(t) \/ SetFolderPathBump(t)
        \/ SetFolderPathStore(t) \/ SetFolderPathPersist(t)
        \/ SetFolderPathSave(t) \/ Return(t)

SpecFolders == InitFolders /\ [][NextFolders]_vars

\* The retry wrapper's re-login, part of every operation it wraps.
Relogin(t) ==
    \/ Reauth(t) \/ DoLoginRequest(t) \/ DoLoginClear(t) \/ DoLoginBump(t)
    \/ DoLoginStore(t) \/ Auth(t) \/ Return(t)

\* Threads list models and set folder paths, on a client that is logged in.
InitCatalog == Constructed /\ AutoLoggedIn /\ ops = MaxCatalogOps

\* The session is not renewed in these runs: a caller whose request the
\* NAS answers with code 119 gets no further.
NextCatalog ==
    \E t \in Threads : Catalog(t) \/ Folders(t) \/ Auth(t) \/ Return(t)

SpecCatalog == InitCatalog /\ [][NextCatalog]_vars

\* Threads list models and set folder paths; an expired session is renewed.
InitListing == Constructed /\ AutoLoggedIn /\ ops = MaxListingOps

NextListing ==
    \E t \in Threads : Catalog(t) \/ Folders(t) \/ Relogin(t)

SpecListing == InitListing /\ [][NextListing]_vars

\* Threads call get_client in a process that has no client yet.
InitFactory ==
    /\ Constructed
    /\ sid = None
    /\ api_url = None
    /\ username = None
    /\ password = None
    /\ auth_version = 0
    /\ config \in ConfigInputs
    /\ globals = NoClient
    /\ ops = MaxFactoryOps

NextFactory ==
    \E t \in Threads :
        \/ GetClient(t) \/ GetClientLock(t) \/ GetClientConstruct(t)
        \/ GetClientConfigure(t) \/ GetClientLogin(t) \/ GetClientLoggedIn(t)
        \/ GetClientReturn(t) \/ Return(t)

SpecFactory == InitFactory /\ [][NextFactory]_vars

\* Threads download and clear the cache, on a client that is logged in.
InitClear == Constructed /\ AutoLoggedIn /\ ops = MaxClearOps

NextClear ==
    \E t \in Threads : Download(t) \/ Relogin(t) \/ ClearCache(t)

SpecClear == InitClear /\ [][NextClear]_vars

\* The folder paths get_client finds in the config (lines 449-451).
OverrideInputs == {EmptyDict, DictSet(EmptyDict, Vae, <<"/", "c">>)}

\* Threads list models on a client that is logged in, whose folder paths
\* do not change; an expired session is renewed.
InitTraversal ==
    /\ model_cache = EmptyDict
    /\ lock = 0
    /\ files = {}
    /\ th = [t \in Threads |-> IdleFrame]
    /\ lastListing = NoListing
    /\ sid = Token(<<"a">>)
    /\ api_url = <<"n">>
    /\ username = <<"a">>
    /\ password = <<"p">>
    /\ auth_version = 1
    /\ folder_paths \in OverrideInputs
    /\ config = [api_url |-> <<"n">>, username |-> <<"a">>,
                 password |-> <<"p">>, folder_paths |-> folder_paths]
    /\ globals = Got(1)
    /\ ops = MaxTraversalOps

NextTraversal == \E t \in Threads : Catalog(t) \/ Relogin(t)

SpecTraversal == InitTraversal /\ [][NextTraversal]_vars

\* The first call of get_client has just assigned _client (line 447) and
\* holds _client_lock; from now on every caller can have the client.  The
\* config has credentials: an auto-login is due.
InitLocks ==
    /\ sid = None
    /\ api_url = None
    /\ username = None
    /\ password = None
    /\ auth_version = 0
    /\ folder_paths = EmptyDict
    /\ model_cache = EmptyDict
    /\ lock = 0
    /\ files = {}
    /\ lastListing = NoListing
    /\ config \in { c \in ConfigInputs : Truthy(c.password) }
    /\ globals = [NoClient EXCEPT !.client = Instance(1), !.client_lock = 1,
                                  !.constructed = 1]
    /\ th = [t \in Threads |->
               IF t = 1
               THEN [Frame("get_client") EXCEPT !.pc = "gc_configure",
                                                !.checks = 2, !.loaded = config]
               ELSE IdleFrame]
    /\ ops = MaxLockOps

\* A caller starts an operation.
Calls(t) ==
    \/ GetClient(t) \/ Login(t) \/ Logout(t) \/ SetFolderPath(t)
    \/ ListShares(t)

\* A thread goes on with the operation it is in.
Proceed(t) ==
    \/ GetClientConfigure(t) \/ GetClientLogin(t) \/ GetClientLoggedIn(t)
    \/ GetClientReturn(t)
    \/ DoLoginRequest(t) \/ DoLoginClear(t) \/ DoLoginBump(t)
    \/ DoLoginStore(t) \/ LoginPersist(t) \/ LoginSave(t)
    \/ LogoutClear(t) \/ LogoutBump(t) \/ LogoutStore(t)
    \/ LogoutPersist(t) \/ LogoutSave(t)
    \/ SetFolderPathPop(t) \/ SetFolderPathBump(t) \/ SetFolderPathStore(t)
    \/ SetFolderPathPersist(t) \/ SetFolderPathSave(t)
    \/ Auth(t) \/ ListSharesRequest(t) \/ Reauth(t) \/ Return(t)

NextLocks == \E t \in Threads : Calls(t) \/ Proceed(t)

\* Threads get the client, log in and out, set folder paths and list the
\* shares while the first get_client is still configuring the client.  A
\* thread that can go on does: the interpreter schedules every thread, and
\* every request has a timeout (lines 166, 193, 268).
SpecLocks ==
    InitLocks /\ [][NextLocks]_vars /\ \A t \in Threads : WF_vars(Proceed(t))

\* Threads download and log out, on a client that is logged in.
InitDownload == Constructed /\ AutoLoggedIn /\ ops = MaxDownloadOps

NextDownload ==
    \E t \in Threads :
        \/ Download(t) \/ Relogin(t)
        \/ Logout(t) \/ LogoutClear(t) \/ LogoutBump(t) \/ LogoutStore(t)
        \/ LogoutPersist(t) \/ LogoutSave(t)

SpecDownload == InitDownload /\ [][NextDownload]_vars

\* Threads log in, log out and set folder paths, on a client that is logged in.
InitVersion == Constructed /\ AutoLoggedIn /\ ops = MaxVersionOps

NextVersion ==
    \E t \in Threads :
        \/ Login(t) \/ DoLoginRequest(t) \/ DoLoginClear(t) \/ DoLoginBump(t)
        \/ DoLoginStore(t) \/ LoginPersist(t) \/ LoginSave(t)
        \/ Logout(t) \/ LogoutClear(t) \/ LogoutBump(t) \/ LogoutStore(t)
        \/ LogoutPersist(t) \/ LogoutSave(t)
        \/ Folders(t) \/ Return(t)

SpecVersion == InitVersion /\ [][NextVersion]_vars

\* ------------------------------------------------------------------------
\* Properties
\* ------------------------------------------------------------------------

\* The operations that run through _with_session_retry.
Wrapped == {"list_shares", "list_directory", "list_models", "download_model"}

Done(t) == th[t].pc = "done"

\* The catalog of the tree under `base_path`: the loop of lines 348-364 run
\* to its end.
RECURSIVE Traverse(_, _, _)
Traverse(stack, results, base_path) ==
    IF stack = << >> THEN Sorted(results)
    ELSE LET after == Visit(RemoteList(stack[Len(stack)]),
                            SubSeq(stack, 1, Len(stack) - 1), results, base_path)
         IN  Traverse(after[1], after[2], base_path)

\* The roots a key can resolve to, and their catalogs.
Roots ==
    { Join(models_base_path, k) : k \in Keys }
        \cup { RStripSlash(p) : p \in { q \in FolderPathInputs : Truthy(q) } }

Catalogs == { Traverse(<<r>>, << >>, r) : r \in Roots }

\* What an execution of the operation of `fr` returns when it succeeds.
SuccessResults(fr) ==
    CASE fr.op = "list_shares" -> { SortedByName(RemoteShares) }
      [] fr.op = "list_directory" ->
            { IF fr.path = <<"/">> THEN SortedByName(RemoteShares)
              ELSE SortedByName(NamesAndPaths(RemoteList(fr.path), TRUE)) }
      [] fr.op = "download_model" -> { LocalPath(fr.folder, fr.filename) }
      [] OTHER -> Catalogs

\* A call whose first execution was answered 119, whose re-login succeeded
\* and whose second execution succeeded.
RetriedOk(t) ==
    /\ Done(t)
    /\ th[t].op \in Wrapped
    /\ th[t].attempt = 2
    /\ th[t].outcome = NoExc

\* C1: a wrapped call whose first execution fails with code 119, whose
\* re-login succeeds and whose second execution succeeds returns what the
\* second execution returns, after exactly one login request and exactly one
\* increment of the version.
C1_RetryOnce ==
    \A t \in Threads :
        RetriedOk(t) =>
            /\ th[t].logins = 1
            /\ th[t].bumps = 1
            /\ th[t].result \in SuccessResults(th[t])

C1_Witness ==
    \E t \in Threads : RetriedOk(t) /\ th[t].op = "list_models"

\* C2: no wrapped operation ends with SessionExpiredError: a call that the
\* NAS answers 119 in both executions ends with another exception.
C2_SessionExpiredNeverEscapes ==
    \A t \in Threads :
        Done(t) /\ th[t].op \in Wrapped =>
            th[t].outcome # SessionExpiredError

\* C3: a wrapped call executes the operation at most twice and logs in
\* again at most once; when the second execution fails the call ends with
\* an exception, after its one login and no third execution.
C3_AtMostOneRetry ==
    \A t \in Threads :
        th[t].op \in Wrapped =>
            /\ th[t].attempt <= 2
            /\ th[t].logins <= 1
            /\ th[t].bumps <= 1
            /\ (th[t].attempt = 2 => th[t].logins = 1 /\ th[t].bumps = 1)

C3_Witness ==
    \E t \in Threads :
        /\ Done(t)
        /\ th[t].op \in Wrapped
        /\ th[t].attempt = 2
        /\ th[t].outcome \in {SynologyAPIError(c) : c \in OtherCodes}

\* C4: no request of a wrapped operation leaves the client without a token,
\* and a wrapped operation that runs while the client has no token, and
\* finds nothing cached, ends with SynologyAuthError and has sent nothing.
C4_UnauthenticatedSendsNothing ==
    \A t \in Threads :
        th[t].op \in Wrapped =>
            /\ th[t].noSidRequests = 0
            /\ (Done(t) /\ th[t].unauth /\ th[t].attempt >= 1 =>
                  th[t].outcome = SynologyAuthError /\ th[t].calls = 0)

\* C5: a list_models(key) that starts after a list_models(key) has
\* returned, with no step of login, logout, re-login or set_folder_path in
\* between, returns the same sequence and sends no request.
C5_ConsecutiveListingsAgree ==
    \A t \in Threads :
        Done(t) /\ th[t].op = "list_models" /\ th[t].prev # {} =>
            /\ th[t].outcome = NoExc
            /\ th[t].result \in th[t].prev
            /\ th[t].calls = 0

\* A login that succeeded, a logout or a set_folder_path has returned.
Mutated(t) ==
    /\ Done(t)
    /\ \/ th[t].op = "login" /\ th[t].outcome = NoExc
       \/ th[t].op \in {"logout", "set_folder_path"}

\* The catalogs that were cached when the operation of t started and
\* still are.
Kept(t) == th[t].cachedAtStart \cap DOMAIN model_cache

\* C6: the version is never below what it was when a running operation
\* started; when a successful login, a logout or a set_folder_path returns
\* it is above; login and logout have left no catalog cached, and
\* set_folder_path(key, ...) none for key.
C6_InvalidationRaisesVersion ==
    \A t \in Threads :
        /\ th[t].pc # "idle" => auth_version >= th[t].version0
        /\ Mutated(t) =>
             /\ auth_version > th[t].version0
             /\ IF th[t].op = "set_folder_path"
                THEN th[t].folder \notin Kept(t)
                ELSE Kept(t) = {}

\* An operation that incremented the version has returned.
VersionChanged(t) == Done(t) /\ th[t].bumps >= 1

\* C7, as stated: after an operation that changes the version, no catalog
\* that was cached before it remains cached, for any key.
C7_EvictionWholesale ==
    \A t \in Threads : VersionChanged(t) => Kept(t) = {}

\* C7, amended: after a login, a logout or a re-login that changes the
\* version no catalog that was cached before it remains cached; after
\* set_folder_path(key, ...) none remains for key.
C7_EvictionPerOperation ==
    \A t \in Threads :
        VersionChanged(t) =>
            IF th[t].op = "set_folder_path"
            THEN th[t].folder \notin Kept(t)
            ELSE Kept(t) = {}

C7_Witness ==
    \E t \in Threads :
        /\ VersionChanged(t)
        /\ th[t].op = "set_folder_path"
        /\ th[t].folder \in th[t].cachedAtStart

\* C8: a download_model of a file that is in the cache returns its path,
\* sends no request, makes no auth check and touches no file.
C8_CacheHit ==
    \A t \in Threads :
        Done(t) /\ th[t].op = "download_model" /\ th[t].existed =>
            /\ th[t].outcome = NoExc
            /\ th[t].result = LocalPath(th[t].folder, th[t].filename)
            /\ th[t].calls = 0
            /\ th[t].authchecks = 0
            /\ th[t].fileops = 0

C8_Witness ==
    \E t \in Threads :
        /\ Done(t) /\ th[t].op = "download_model" /\ th[t].existed
        /\ th[t].unauth

\* A download that no other download of the same file overlapped has
\* failed after it opened its temporary file.
FailedAlone(t) ==
    /\ Done(t)
    /\ th[t].op = "download_model"
    /\ th[t].outcome # NoExc
    /\ th[t].fileops >= 1
    /\ ~th[t].overlap

\* C9: when a write of the body or the rename fails in a download that no
\* other download of the file overlaps, the call raises that error and
\* leaves neither the final file nor the .tmp file.
C9_FailureLeavesNoFile ==
    \A t \in Threads :
        FailedAlone(t) =>
            /\ th[t].outcome \in {OSError, RequestException}
            /\ th[t].leftover = {}

C9_Witness ==
    \E t \in Threads :
        FailedAlone(t) /\ th[t].outcome = OSError /\ th[t].fileops >= 3

\* C10: two downloads of the same file never write to the same temporary
\* file, and the cleanup of one never removes a file the other has open.
C10_OwnTemporaryFile ==
    /\ \A f \in files : Cardinality(f.writers) <= 1
    /\ \A t \in Threads : ~th[t].removedOpen


\* The download request of t's current execution was answered with a JSON
\* body.
JsonAnswer(t) ==
    /\ th[t].op = "download_model"
    /\ th[t].answer.kind \in {"ok", "envelope"}

\* C11: a download_model whose request is answered with JSON opens and
\* writes no file; code 119 in the first execution leads to the re-login
\* (or to SynologyAuthError without credentials) and in the second raises
\* SessionExpiredError, any other error code raises SynologyAPIError with
\* that code, and a success envelope raises SynologyAPIError too.
C11_JsonIsNeverWritten ==
    \A t \in Threads :
        JsonAnswer(t) =>
            /\ th[t].fileops = 0
            /\ th[t].pc \in {"reauth", "do_login", "do_login_clear",
                              "do_login_bump", "do_login_store", "done"}
            /\ th[t].pc # "done" =>
                 th[t].attempt = 1 /\ th[t].answer.code = SessionExpiredCode
            /\ Done(t) =>
                 CASE th[t].answer.kind = "ok" ->
                        th[t].outcome = SynologyAPIError(0)
                   [] th[t].answer.code # SessionExpiredCode ->
                        th[t].outcome = SynologyAPIError(th[t].answer.code)
                   [] th[t].attempt = 1 ->
                        \/ th[t].logins = 1 /\ th[t].outcome # NoExc
                        \/ th[t].logins = 0 /\ th[t].outcome = SynologyAuthError
                   [] OTHER -> th[t].outcome = SessionExpiredError

C11_Witness ==
    \E t \in Threads :
        /\ JsonAnswer(t) /\ Done(t)
        /\ th[t].answer.kind = "ok"
        /\ th[t].attempt = 2


\* C12: logout returns without an exception, and when it returns the
\* token, the account and the secret are None, no catalog is cached and
\* the version is one above what it was when logout was called.
C12_LogoutCompletes ==
    \A t \in Threads :
        Done(t) /\ th[t].op = "logout" =>
            /\ th[t].outcome = NoExc
            /\ th[t].final.sid = None
            /\ th[t].final.username = None
            /\ th[t].final.password = None
            /\ th[t].final.cached = {}
            /\ th[t].final.version = th[t].version0 + 1


\* The first execution of t's call was answered 119 while no account or
\* no secret was cached.
ExpiredWithoutCredentials(t) ==
    Done(t) /\ th[t].op \in Wrapped /\ th[t].nocreds

\* C13: a wrapped call whose execution is answered 119 while no account or
\* secret is cached ends with SynologyAuthError; it has sent no login
\* request, has executed the operation once and has not incremented the
\* version.
C13_NoCredentialsNoRetry ==
    \A t \in Threads :
        /\ th[t].nocreds => Done(t)
        /\ ExpiredWithoutCredentials(t) =>
             /\ th[t].outcome = SynologyAuthError
             /\ th[t].logins = 0
             /\ th[t].attempt = 1
             /\ th[t].bumps = 0

C13_Witness ==
    \E t \in Threads : ExpiredWithoutCredentials(t) /\ th[t].calls = 1


\* The request of t's current execution failed, and not with code 119.
OtherFailure(t) ==
    \/ th[t].answer.kind = "transport"
    \/ th[t].answer.kind = "envelope" /\ th[t].answer.code # SessionExpiredCode

\* What a request that fails so raises.
OtherFailureRaises(t) ==
    IF th[t].answer.kind = "transport" THEN RequestException
    ELSE SynologyAPIError(th[t].answer.code)

\* The call of t has made no login, no increment of the version and no
\* store of a catalog.
Untouched(t) ==
    th[t].logins = 0 /\ th[t].bumps = 0 /\ ~th[t].stored

\* C14: a wrapped call whose request fails with an error code other than
\* 119 or with a transport failure ends at once with SynologyAPIError
\* carrying that code, or with the transport's exception; when that, or a
\* failed auth check, happens in the first execution, the operation has
\* run once and the call has made no login, no increment of the version
\* and no store of a catalog.
C14_OnlyCode119Retries ==
    \A t \in Threads :
        th[t].op \in Wrapped =>
            /\ OtherFailure(t) =>
                 /\ Done(t)
                 /\ th[t].outcome = OtherFailureRaises(t)
                 /\ th[t].attempt = 1 => Untouched(t)
            /\ (Done(t) /\ th[t].outcome = SynologyAuthError
                  /\ th[t].answer.code # SessionExpiredCode
                  /\ th[t].attempt = 1) => Untouched(t)

C14_Witness ==
    \E t \in Threads :
        /\ th[t].op = "list_models"
        /\ OtherFailure(t) /\ th[t].attempt = 1 /\ th[t].calls = 2


\* C15: right after set_folder_path(k, p) has set or removed the override,
\* k resolves to p without its trailing slash when p is not empty, and to
\* models_base_path/k when p is empty; a key with no override resolves to
\* models_base_path/k.
C15_ResolvesToOverride ==
    /\ \A k \in Keys :
         k \notin DOMAIN folder_paths =>
             ResolveFolderPath(k) = Join(models_base_path, k)
    /\ \A t \in Threads :
         th[t].op = "set_folder_path" =>
             th[t].resolved = IF th[t].path # << >> THEN RStripSlash(th[t].path)
                              ELSE Join(models_base_path, th[t].folder)


\* The files of the NAS at any depth under the directory `dir`.
RECURSIVE FilesUnder(_)
FilesUnder(dir) ==
    LET entries == { RemoteList(dir)[i] : i \in 1..Len(RemoteList(dir)) }
    IN  { e \in entries : ~e.isdir }
            \cup UNION { FilesUnder(e.path) : e \in { d \in entries : d.isdir } }

\* The catalog entry of the file `f` under the root `root`: what follows
\* root + "/" in its path when the path begins with it, else its name.
CatalogEntry(f, root) ==
    LET prefix == root \o <<"/">>
    IN  IF /\ Len(f.path) >= Len(prefix)
           /\ \A i \in 1..Len(prefix) : f.path[i] = prefix[i]
        THEN [i \in 1..(Len(f.path) - Len(prefix)) |-> f.path[i + Len(prefix)]]
        ELSE f.name

\* A list_models whose traversal of the tree has ended (before line 366).
Traversed(t) == th[t].op = "list_models" /\ th[t].pc = "lm_store"

\* C16: when the traversal of list_models with resolved root R has ended,
\* its results are, for every kept file under R, the rest of the file's
\* path after R + "/" when the path begins with exactly that, and the bare
\* name of the file otherwise; one entry for each kept file.
C16_RelativeOrBareName ==
    \A t \in Threads :
        Traversed(t) =>
            LET kept == { f \in FilesUnder(th[t].base_path) : IsModelFile(f.name) }
                results == th[t].results
            IN  /\ { results[i] : i \in 1..Len(results) }
                       = { CatalogEntry(f, th[t].base_path) : f \in kept }
                /\ Len(results) = Cardinality(kept)

\* A traversal that kept a file under its root and one reported elsewhere.
C16_Witness ==
    \E t \in Threads :
        /\ Traversed(t)
        /\ th[t].base_path = <<"/", "c">>
        /\ \E i, j \in 1..Len(th[t].results) :
              /\ th[t].results[i] = <<"e", ".", "b", "i", "n">>
              /\ th[t].results[j] = <<"f", ".", "p", "t">>


\* The catalogs that are cached, and those list_models has returned.
CatalogsInUse ==
    { model_cache[k] : k \in DOMAIN model_cache }
        \cup { th[t].result : t \in { s \in Threads :
                  /\ Done(s) /\ th[s].op = "list_models"
                  /\ th[s].outcome = NoExc } }

\* The allow-listed suffixes of line 356, as the claim has them.
AllowListed ==
    { <<".", "s", "a", "f", "e", "t", "e", "n", "s", "o", "r", "s">>,
      <<".", "c", "k", "p", "t">>, <<".", "p", "t">>, <<".", "p", "t", "h">>,
      <<".", "b", "i", "n">> }

\* C17: every entry of every cached or returned catalog, lowercased, ends
\* in an allow-listed suffix; a file with another suffix is in no catalog,
\* whatever its depth.
C17_OnlyModelFiles ==
    \A catalog \in CatalogsInUse :
        \A i \in 1..Len(catalog) :
            \E suffix \in AllowListed :
                LET entry == Lower(catalog[i])
                IN  /\ Len(entry) >= Len(suffix)
                    /\ SubSeq(entry, Len(entry) - Len(suffix) + 1, Len(entry)) = suffix

\* The tree of "l" (k.pt, n.txt, d/X.PT, d/b.json) is cached and returned.
C17_Witness ==
    /\ Loras \in DOMAIN model_cache
    /\ model_cache[Loras] = << <<"d", "/", "X", ".", "P", "T">>, <<"k", ".", "p", "t">> >>
    /\ \E t \in Threads :
          /\ Done(t) /\ th[t].op = "list_models"
          /\ th[t].result = model_cache[Loras]


\* A login, logout or set_folder_path that has returned and whose write of
\* the config, if it made one, did not fail.
Mutating == {"login", "logout", "set_folder_path"}

MutatedAndSaved(t) ==
    /\ Done(t)
    /\ th[t].op \in Mutating
    /\ th[t].outcome = NoExc
    /\ th[t].write # "failed"

\* C18: when a successful login, a logout or a set_folder_path returns, its
\* write of the config not having failed, the config file holds the
\* endpoint, account, secret and folder overrides the client holds.
C18_ConfigFollowsClient ==
    \A t \in Threads : MutatedAndSaved(t) => th[t].synced


\* The calls of get_client that have returned.
Gotten == { t \in Threads : Done(t) /\ th[t].op = "get_client" }

\* C19: whatever the interleaving of the calls of get_client, at most one
\* SynologyClient is ever constructed and at most one auto-login attempted,
\* and every call returns the one client that was constructed.
C19_OneClient ==
    /\ globals.constructed <= 1
    /\ globals.autologins <= 1
    /\ \A t \in Gotten :
          /\ globals.constructed = 1
          /\ th[t].result = Instance(1)
          /\ th[t].result = globals.client

\* Two first calls have raced: both passed the first check, one constructed
\* the client and logged in, the other found it under the lock.
C19_Witness ==
    /\ Gotten = Threads
    /\ globals.autologins = 1
    /\ \E t \in Threads : th[t].logins = 0 /\ th[t].checks = 2


\* C20: clear_cache returns, leaves no file under the cache root (so that
\* no download_model after it finds its file there) and returns the number
\* of bytes the files held.
C20_ClearCacheEmptiesTheCache ==
    \A t \in Threads :
        Done(t) /\ th[t].op = "clear_cache" =>
            /\ th[t].outcome = NoExc
            /\ th[t].leftover = {}
            /\ th[t].result = th[t].found


\* A thread inside its mutation of the session, the folder paths or the
\* catalogs: login, logout or the re-login inside `with self._lock`, or
\* set_folder_path between its write of _folder_paths and its write of
\* _auth_version.
InsideMutation(t) ==
    \/ lock = t
    \/ th[t].pc \in {"sfp_pop", "sfp_bump", "sfp_store"}

\* C21: login, logout, set_folder_path and the re-login of the retry
\* wrapper exclude one another: no two threads are inside their mutation
\* at the same time.
C21_MutationsExclude ==
    \A t1, t2 \in Threads :
        t1 # t2 => ~(InsideMutation(t1) /\ InsideMutation(t2))


\* A thread inside a login, a logout, a set_folder_path or the re-login of
\* the retry wrapper.
Invalidating(t) ==
    \/ lock = t
    \/ th[t].op \in Mutating /\ th[t].pc \notin {"idle", "done"}

\* C22: once the logins, logouts, re-logins and set_folder_path calls have
\* all completed, the catalog cached for a key is the one of the tree under
\* the path the key resolves to now: a traversal a change has overtaken
\* leaves nothing in the cache.
C22_NoStaleCatalog ==
    (\A t \in Threads : ~Invalidating(t)) =>
        \A k \in DOMAIN model_cache :
            model_cache[k] = Traverse(<<ResolveFolderPath(k)>>, << >>,
                                      ResolveFolderPath(k))


\* C23: a download_model that finds its file in the cache finds the whole
\* body there, with no other caller still writing it.
C23_CacheHitSeesWholeFile ==
    \A t \in Threads :
        th[t].op = "download_model" /\ th[t].existed => th[t].intact


\* A thread inside fn: in the listing or download requests of a wrapped
\* operation, or between them.
InFn(t) ==
    /\ th[t].op \in Wrapped
    /\ th[t].pc \in {"auth", "request", "lm_do", "lm_store", "lm_return",
                     "dl_open", "dl_write", "dl_cleanup"}

\* A wrapped call that has ended and that no code 119 has answered.
EndedUnexpired(t) ==
    /\ Done(t)
    /\ th[t].op \in Wrapped
    /\ th[t].attempt <= 1
    /\ th[t].answer.code # SessionExpiredCode

\* C24: a thread inside the listing or download requests of a wrapped
\* operation does not hold _lock, and a wrapped call that does not meet a
\* session expiry ends without having taken it, also when it runs while
\* another thread holds the lock.
C24_NoLockAcrossRequests ==
    \A t \in Threads :
        /\ InFn(t) => lock # t
        /\ EndedUnexpired(t) => th[t].locks = 0

\* A wrapped call has sent its request and returned while another thread
\* was holding the lock.
C24_Witness ==
    \E t \in Threads :
        /\ EndedUnexpired(t)
        /\ th[t].outcome = NoExc
        /\ th[t].besideLock
        /\ lock \notin {0, t}


\* The directories of the NAS at any depth under `dir`, `dir` included.
RECURSIVE DirsUnder(_)
DirsUnder(dir) ==
    LET entries == { RemoteList(dir)[i] : i \in 1..Len(RemoteList(dir)) }
    IN  {dir} \cup UNION { DirsUnder(e.path) : e \in { d \in entries : d.isdir } }

\* The sequence `s` is, in lexicographic order and without repetition, the
\* catalog entries of the allow-listed files of the whole tree under `root`.
IsCatalogOf(s, root) ==
    /\ \A i, j \in 1..Len(s) : i < j => StrLess(s[i], s[j])
    /\ { s[i] : i \in 1..Len(s) }
          = { CatalogEntry(f, root) :
                f \in { g \in FilesUnder(root) :
                          \E suffix \in AllowListed : EndsWith(Lower(g.name), suffix) } }

SetFolderPathStep(t) ==
    th'[t].op = "set_folder_path" /\ th'[t].pc # th[t].pc

\* The dicts `d` and `e` are the same at the key `x`.
SameAt(d, e, x) ==
    /\ x \in DOMAIN d <=> x \in DOMAIN e
    /\ x \in DOMAIN d => d[x] = e[x]

\* C26: no step of set_folder_path(key, path) changes the token, the
\* account, the secret, the endpoint, the override of another key or the
\* cached catalog of another key.
C26_SetFolderPathFrame ==
    [][\A t \in Threads :
          SetFolderPathStep(t) =>
              /\ sid' = sid
              /\ username' = username
              /\ password' = password
              /\ api_url' = api_url
              /\ \A k \in Keys \ {th'[t].folder} :
                    /\ SameAt(folder_paths, folder_paths', k)
                    /\ SameAt(model_cache, model_cache', k)]_vars

\* set_folder_path of one key has returned and the catalog of the other
\* key, cached when it started, is still cached.
C26_Witness ==
    \E t \in Threads :
        /\ Done(t) /\ th[t].op = "set_folder_path"
        /\ th[t].bumps = 1
        /\ \E k \in Keys \ {th[t].folder} :
              k \in th[t].cachedAtStart /\ k \in DOMAIN model_cache


\* Thread t's call of login takes its first step.
LoginStarts(t) == th[t].pc = "idle" /\ th'[t].op = "login"

\* Thread t's login request is answered, and not with a success.
LoginRefused(t) ==
    /\ th[t].pc = "do_login" /\ th[t].op = "login"
    /\ th'[t].login_answer \in {"envelope", "transport"}

\* C27: a login the NAS refuses, or whose request fails, raises and leaves
\* the token, the version and the cached catalogs as they are, as does the
\* first step of every login; a login with no endpoint raises
\* SynologyAuthError at once, having sent nothing and stored no credentials.
C27_FailedLoginFrame ==
    [][\A t \in Threads :
          /\ LoginStarts(t) \/ LoginRefused(t) =>
                /\ sid' = sid
                /\ auth_version' = auth_version
                /\ model_cache' = model_cache
          /\ LoginRefused(t) =>
                /\ th'[t].pc = "done"
                /\ th'[t].outcome \in {SynologyAuthError, RequestException}
          /\ LoginStarts(t) /\ ~Truthy(api_url') =>
                /\ th'[t].pc = "done"
                /\ th'[t].outcome = SynologyAuthError
                /\ th'[t].calls = 0
                /\ username' = username
                /\ password' = password]_vars

\* A login was refused on a client that is logged in and has a catalog
\* cached: both are still there.
C27_Witness ==
    \E t \in Threads :
        /\ Done(t) /\ th[t].op = "login"
        /\ th[t].login_answer = "envelope"
        /\ th[t].outcome = SynologyAuthError
        /\ sid # None
        /\ DOMAIN model_cache # {}
        /\ auth_version = th[t].version0


\* C28: whenever a token is present and no login is under way, the stored
\* account is the one the token was issued to.
C28_TokenOwnerIsStored ==
    lock = 0 /\ sid # None => sid = Token(username)


\* logout has returned to t, which has not gone on yet.
LoggedOut(t) == Done(t) /\ th[t].op = "logout"

\* This step gives the client a token it did not have.
TokenArrives == sid = None /\ sid' # None

\* C29: logout returns with no token, no account and no secret; from then
\* on only a step of an explicit login gives the client a token, and a
\* re-login of the retry wrapper that was waiting for the lock ends with
\* SynologyAuthError.
C29_LoggedOutStays ==
    [][\A u \in Threads :
         /\ ~LoggedOut(u) /\ LoggedOut(u)' =>
               sid' = None /\ username' = None /\ password' = None
         /\ LoggedOut(u) /\ TokenArrives =>
               \E t \in Threads : /\ th[t].op = "login"
                                   /\ th[t].pc = "do_login"
                                   /\ th'[t].pc = "do_login_clear"
         /\ \A t \in Threads :
               LoggedOut(u) /\ th[t].pc = "reauth" /\ th'[t].pc # "reauth"
               /\ sid = None /\ username = None =>
                   /\ th'[t].pc = "done"
                   /\ th'[t].outcome = SynologyAuthError
                   /\ sid' = None]_vars

C29_Witness ==
    \E t, u \in Threads :
        /\ LoggedOut(u)
        /\ Done(t) /\ th[t].op \in Wrapped /\ th[t].nocreds
        /\ ~th[t].unauth /\ th[t].calls = 1
        /\ th[t].outcome = SynologyAuthError
        /\ sid = None


\* get_client hands its result to t at this step (line 463).
GetClientReturns(t) == th[t].pc = "gc_return" /\ th'[t].pc = "done"

\* The folder paths of the config that are not empty.
NonEmptyPaths ==
    [k \in { j \in DOMAIN config.folder_paths :
                 Truthy(config.folder_paths[j]) } |-> config.folder_paths[k]]

\* The config has an endpoint, an account and a secret: an auto-login is due.
AutoLoginDue ==
    Truthy(config.api_url) /\ Truthy(config.username) /\ Truthy(config.password)

\* The client has the folder paths of the config, and the auto-login, if
\* one is due, has been attempted.
Bootstrapped ==
    /\ folder_paths = NonEmptyPaths
    /\ AutoLoginDue => globals.autologins = 1

\* C30: when get_client returns the client to a caller, the folder paths of
\* the config have been applied to it and the auto-login, if one is due,
\* has been attempted; the client is returned whether or not that login
\* succeeded.
C30_ClientReadyWhenReturned ==
    [][\A t \in Threads :
         GetClientReturns(t) =>
             /\ th'[t].result = globals.client
             /\ globals.client # None
             /\ Bootstrapped
             /\ ~AutoLoginDue => sid = None]_vars


\* t is where it asks for the client's lock: about to call login or
\* logout, at the re-login of the retry wrapper (line 214), or at the
\* auto-login of get_client (line 460).
AsksForLock(t) == th[t].pc \in {"idle", "reauth", "gc_login"}

\* Nobody asks for the client's lock while holding it; a caller between two
\* operations, from where get_client is called, holds no lock; the thread
\* that holds both locks is inside the auto-login of get_client, which took
\* _client_lock first.
LockOrder ==
    \A t \in Threads :
        /\ AsksForLock(t) => lock # t
        /\ th[t].pc \in {"idle", "done"} =>
               lock # t /\ globals.client_lock # t
        /\ lock = t /\ th[t].op = "get_client" =>
               globals.client_lock = t /\ th[t].pc = "gc_do_login"
        /\ globals.client_lock = t => th[t].op = "get_client"

\* C31: no thread asks for the client's lock while holding it, _client_lock
\* is never taken by a thread that holds the client's lock, and a lock
\* that is held is released in the end.
C31_NoDeadlock ==
    /\ []LockOrder
    /\ \A t \in Threads :
          /\ (lock = t) ~> (lock # t)
          /\ (globals.client_lock = t) ~> (globals.client_lock # t)

\* The first get_client holds _client_lock and waits for the client's
\* lock, which another thread holds for its login, logout or re-login.
C31_Witness ==
    \E t, u \in Threads :
        /\ globals.client_lock = t /\ th[t].pc = "gc_login"
        /\ lock = u /\ u # t

====
